---- MODULE Spec2Model ----
(***************************************************************************)
(* Verification model of the GenAI knowledge-base search programs:         *)
(*   - the search agent (src/search-agent.js, lines 1-351): loadKB,        *)
(*     localSearch, apiSearch, search;                                     *)
(*   - the search API server (src/unnamed/part_000): loadKBData,           *)
(*     getEmbeddingsCache, generateEmbeddings, semanticSearch, textSearch, *)
(*     generateSummary, POST /search, the app.listen callback;             *)
(*   - the kanban API server (src/search-agent.js, lines 353-510):         *)
(*     POST /api/ai-search.                                                *)
(* Strings are sequences of one-character strings, so that toLowerCase,    *)
(* split and includes are computed, not assumed.  Dates are day numbers    *)
(* (ISO date strings of one format compare as their day numbers do).       *)
(***************************************************************************)
EXTENDS Integers, Sequences, FiniteSets, TLC

(***************************************************************************)
(* Strings                                                                 *)
(***************************************************************************)

\* Range searched for a rounded percentage.
RoundRange == 200

\* String.prototype.toLowerCase, on the model's alphabet.
LowerChar(c) ==
  CASE c = "K" -> "k"
    [] c = "A" -> "a"
    [] c = "R" -> "r"
    [] c = "E" -> "e"
    [] c = "S" -> "s"
    [] OTHER -> c

ToLower(s) == [i \in 1..Len(s) |-> LowerChar(s[i])]

IsSpace(c) == c = " "

\* String.prototype.includes: sub occurs in s as a contiguous substring.
Includes(s, sub) ==
  \E i \in 1..(Len(s) - Len(sub) + 1) : SubSeq(s, i, i + Len(sub) - 1) = sub

\* String.prototype.trim.
RECURSIVE Trim(_)
Trim(s) ==
  IF s = <<>> THEN s
  ELSE IF IsSpace(Head(s)) THEN Trim(Tail(s))
  ELSE IF IsSpace(s[Len(s)]) THEN Trim(SubSeq(s, 1, Len(s) - 1))
  ELSE s

\* String.prototype.split(/\s+/): the pieces between maximal whitespace runs,
\* an empty piece before a leading run and after a trailing one.
RECURSIVE SplitFrom(_, _, _, _)
SplitFrom(s, i, cur, toks) ==
  IF i > Len(s) THEN Append(toks, cur)
  ELSE IF IsSpace(s[i])
       THEN IF i > 1 /\ IsSpace(s[i - 1])
            THEN SplitFrom(s, i + 1, cur, toks)
            ELSE SplitFrom(s, i + 1, <<>>, Append(toks, cur))
       ELSE SplitFrom(s, i + 1, Append(cur, s[i]), toks)

SplitWs(s) == SplitFrom(s, 1, <<>>, <<>>)

\* Array.prototype.join(' ').
RECURSIVE JoinSp(_)
JoinSp(ws) ==
  IF ws = <<>> THEN <<>>
  ELSE IF Len(ws) = 1 THEN ws[1]
  ELSE ws[1] \o <<" ">> \o JoinSp(Tail(ws))

\* Array.prototype.slice(0, n).
Slice(s, n) == SubSeq(s, 1, IF n < Len(s) THEN n ELSE Len(s))

\* [...new Set(xs)]: the first occurrence of each element, in order.
RECURSIVE Dedupe(_)
Dedupe(xs) ==
  IF xs = <<>> THEN <<>>
  ELSE LET r == Dedupe(SubSeq(xs, 1, Len(xs) - 1))
           x == xs[Len(xs)]
       IN IF \E i \in 1..Len(r) : r[i] = x THEN r ELSE Append(r, x)

\* An optional property of a JS object: present and truthy.
Has(rec, f) == f \in DOMAIN rec

(***************************************************************************)
(* Numbers.  A JS number that a score can be is modelled exactly as        *)
(* num / sqrt(den2) with den2 > 0: an integer k is k / sqrt(1), a ratio    *)
(* a / b is a / sqrt(b * b), a cosine is dot / sqrt(normA * normB).        *)
(***************************************************************************)

Num(k) == [num |-> k, den2 |-> 1]

Ratio(a, b) == [num |-> a, den2 |-> b * b]

Abs(k) == IF k < 0 THEN -k ELSE k

\* x -> x * |x| is increasing, so it decides comparisons of signed roots.
SignedSq(k) == k * Abs(k)

NumGt(a, b) == SignedSq(a.num) * b.den2 > SignedSq(b.num) * a.den2

NumEq(a, b) == SignedSq(a.num) * b.den2 = SignedSq(b.num) * a.den2

NumPos(a) == a.num > 0

\* Math.round(100 * a): the integer r with r - 1/2 <= 100 * a < r + 1/2.
Round100(a) ==
  CHOOSE r \in -RoundRange..RoundRange :
    /\ ~ NumGt([num |-> 2 * r - 1, den2 |-> 1], [num |-> 200 * a.num, den2 |-> a.den2])
    /\ NumGt([num |-> 2 * r + 1, den2 |-> 1], [num |-> 200 * a.num, den2 |-> a.den2])

\* A descending sort that puts a later element before the earlier ones of
\* equal score.
RECURSIVE SortTiesReversed(_)
SortTiesReversed(rs) ==
  IF rs = <<>> THEN <<>>
  ELSE LET init == SortTiesReversed(SubSeq(rs, 1, Len(rs) - 1))
           x == rs[Len(rs)]
           below == {i \in 1..Len(init) : ~ NumGt(init[i].score, x.score)}
           pos == IF below = {} THEN Len(init) + 1
                  ELSE CHOOSE i \in below : \A j \in below : i <= j
       IN SubSeq(init, 1, pos - 1) \o <<x>> \o SubSeq(init, pos, Len(init))

\* Array.prototype.sort((a, b) => b.score - a.score): descending by score,
\* stable (equal scores keep their order).
RECURSIVE SortByScore(_)
SortByScore(rs) ==
  IF rs = <<>> THEN <<>>
  ELSE LET init == SortByScore(SubSeq(rs, 1, Len(rs) - 1))
           x == rs[Len(rs)]
           below == {i \in 1..Len(init) : NumGt(x.score, init[i].score)}
           pos == IF below = {} THEN Len(init) + 1
                  ELSE CHOOSE i \in below : \A j \in below : i <= j
       IN SubSeq(init, 1, pos - 1) \o <<x>> \o SubSeq(init, pos, Len(init))

(***************************************************************************)
(* The knowledge base: entries, and the contents the backing file takes.   *)
(***************************************************************************)

kar == <<"k", "a", "r">>
tok == <<"t", "o", "k">>
wx == <<"w", "x">>
rep == <<"r", "e", "p">>
zzz == <<"z", "z", "z">>
sp == <<" ">>

CatRes == <<"R", "e", "s">>
CatResLower == <<"r", "e", "s">>
CatMisc == <<"m", "i", "s", "c">>
CatAll == <<"a", "l", "l">>

\* Day numbers: the clock's first value, and how far it may be ahead.
Today == 200
ClockSkew == 60

Entry1 ==
  [id |-> 1, title |-> <<"K">> \o Tail(kar) \o sp \o tok, summary |-> <<"n", "e", "w">> \o sp \o tok,
   category |-> CatRes, source |-> kar, tags |-> << <<"l", "l", "m">> >>, date |-> Today - 5,
   addedAt |-> Today - 5]

Entry2 ==
  [id |-> 2, title |-> wx \o sp \o rep, category |-> CatMisc,
   source |-> <<"b", "b", "c">>, tags |-> <<>>, date |-> Today - 100,
   addedAt |-> Today - 100]

Entry3 ==
  [id |-> 3, title |-> tok \o sp \o kar, summary |-> kar,
   category |-> CatResLower, source |-> <<"x">>, tags |-> <<>>]

Entry4 ==
  [id |-> 4, title |-> <<"K", "a", "r">>, category |-> CatRes,
   source |-> <<"b", "b", "c">>, tags |-> <<tok>>, date |-> Today - 50]

\* The contents genai-kb.json takes, by version.
KBVersions == << <<Entry1, Entry2, Entry3>>, <<Entry4, Entry2>> >>

\* The queries callers send.
Queries ==
  { <<>>, sp, kar, <<"K", "A", "R">>, kar \o sp \o tok, tok \o sp \o kar,
    wx, zzz, kar \o sp \o kar }

Categories == {CatRes, CatResLower, CatMisc, CatAll}

DefaultLimit == 10

Limits == {1, 2}

DateBounds == {Today - 60, Today - 20}

\* A destructured option with its default.
Opt(o, f, dflt) == IF Has(o, f) THEN o[f] ELSE dflt

(***************************************************************************)
(* search-agent.js: localSearch, on a loaded snapshot.                     *)
(***************************************************************************)

RecentDays == 30
OlderDays == 90

QueryWords(query) == SelectSeq(SplitWs(ToLower(query)), LAMBDA w : Len(w) > 2)

\* The template string both searches score against.
EntryText(entry) ==
  ToLower(entry.title \o sp \o (IF Has(entry, "summary") THEN entry.summary ELSE <<>>)
          \o sp \o entry.category \o sp \o entry.source \o sp \o JoinSp(entry.tags))

MatchedWords(query, entry) ==
  SelectSeq(QueryWords(query), LAMBDA w : Includes(EntryText(entry), w))

TitleBoost(query, entry) ==
  LET titleLower == ToLower(entry.title)
      queryWords == QueryWords(query)
  IN IF Includes(titleLower, ToLower(query)) THEN 10
     ELSE IF \A i \in 1..Len(queryWords) : Includes(titleLower, queryWords[i]) THEN 5
     ELSE 0

SummaryBoost(query, entry) ==
  IF Has(entry, "summary") /\ Includes(ToLower(entry.summary), ToLower(query)) THEN 3 ELSE 0

SourceBoost(query, entry) ==
  IF Includes(ToLower(entry.source), ToLower(query)) THEN 2 ELSE 0

\* A recency boost that also favours entries 90 days old or older.
DateBoostOldToo(entry, clock) ==
  IF Has(entry, "date")
  THEN LET daysOld == clock - entry.date
       IN IF daysOld < RecentDays THEN 2 ELSE 1
  ELSE 0

DateBoost(entry, clock) ==
  IF Has(entry, "date")
  THEN LET daysOld == clock - entry.date
       IN IF daysOld < RecentDays THEN 2 ELSE IF daysOld < OlderDays THEN 1 ELSE 0
  ELSE 0

LocalScore(query, entry, clock) ==
  Len(MatchedWords(query, entry)) + TitleBoost(query, entry) + SummaryBoost(query, entry)
    + SourceBoost(query, entry) + DateBoost(entry, clock)

CategoryMatchesIgnoreCase(entry, options) ==
  Has(options, "category") /\ options.category # CatAll
    => ToLower(entry.category) = ToLower(options.category)

\* A search that keeps the zero-score entries of a category asked for.
localSearchKeepsZero(entries, query, options, clock) ==
  LET scored == [i \in 1..Len(entries) |->
                   [entry |-> entries[i],
                    score |-> Num(LocalScore(query, entries[i], clock)),
                    matches |-> Dedupe(MatchedWords(query, entries[i]))]]
      inCategory == SelectSeq(scored, LAMBDA r : CategoryMatchesIgnoreCase(r.entry, options))
      sorted == SortByScore(inCategory)
  IN Slice(SelectSeq(sorted, LAMBDA r : Has(options, "category") \/ NumPos(r.score)),
           Opt(options, "limit", DefaultLimit))

\* localSearch(query, options) over data.entries.
localSearch(entries, query, options, clock) ==
  LET scored == [i \in 1..Len(entries) |->
                   [entry |-> entries[i],
                    score |-> Num(LocalScore(query, entries[i], clock)),
                    matches |-> Dedupe(MatchedWords(query, entries[i]))]]
      inCategory == SelectSeq(scored, LAMBDA r : CategoryMatchesIgnoreCase(r.entry, options))
      sorted == SortByScore(inCategory)
  IN Slice(SelectSeq(sorted, LAMBDA r : NumPos(r.score)), Opt(options, "limit", DefaultLimit))

\* results.map(r => ({ ...r.entry, relevance: Math.min(r.score * 10, 100) }))
LocalRelevance(r) == IF r.score.num * 10 < 100 THEN r.score.num * 10 ELSE 100

LocalRecords(results) ==
  [i \in 1..Len(results) |-> [entry |-> results[i].entry, relevance |-> LocalRelevance(results[i])]]

(***************************************************************************)
(* Search API server: textSearch, cosineSimilarity and the scoring half    *)
(* of semanticSearch.                                                      *)
(***************************************************************************)

\* A variable holding null, or a value.
Null == [null |-> TRUE]
Some(x) == [val |-> x]
IsNull(r) == Has(r, "null")

\* What the embedding provider answers for an entry (text-embedding-3-small),
\* and the vectors it may answer for a query.
EntryEmbedding(entry) ==
  CASE entry.id = 1 -> <<3, 4>>
    [] entry.id = 2 -> <<4, 3>>
    [] entry.id = 3 -> <<0, 5>>
    [] OTHER -> <<6, 8>>

QueryVectors == {<<3, 4>>, <<1, 0>>}

RECURSIVE DotFrom(_, _, _)
DotFrom(a, b, i) == IF i > Len(a) THEN 0 ELSE a[i] * b[i] + DotFrom(a, b, i + 1)

cosineSimilarity(a, b) ==
  [num |-> DotFrom(a, b, 1), den2 |-> DotFrom(a, a, 1) * DotFrom(b, b, 1)]

\* The three filters both server searches apply after sorting.
ServerFilters(results, options) ==
  LET byCategory ==
        IF Has(options, "category") /\ options.category # CatAll
        THEN SelectSeq(results, LAMBDA r : r.entry.category = options.category)
        ELSE results
      byFrom ==
        IF Has(options, "dateFrom")
        THEN SelectSeq(byCategory,
                       LAMBDA r : ~ Has(r.entry, "date") \/ r.entry.date >= options.dateFrom)
        ELSE byCategory
  IN IF Has(options, "dateTo")
     THEN SelectSeq(byFrom, LAMBDA r : ~ Has(r.entry, "date") \/ r.entry.date <= options.dateTo)
     ELSE byFrom

\* semanticSearch from "Calculate similarities" on.
VectorRank(entries, cache, queryEmbedding, options) ==
  LET results == [i \in 1..Len(entries) |->
                    IF entries[i].id \in DOMAIN cache
                    THEN [entry |-> entries[i],
                          score |-> cosineSimilarity(queryEmbedding, cache[entries[i].id])]
                    ELSE [entry |-> entries[i], score |-> Num(0)]]
  IN Slice(ServerFilters(SortByScore(results), options), Opt(options, "limit", DefaultLimit))

TextScore(query, entry) ==
  LET queryLower == ToLower(query)
      queryWords == QueryWords(query)
      score == Len(MatchedWords(query, entry))
               + (IF Includes(ToLower(entry.title), queryLower) THEN 5 ELSE 0)
               + SummaryBoost(query, entry)
  IN Ratio(score, Len(queryWords) + 5)

textSearch(entries, query, options) ==
  LET results == [i \in 1..Len(entries) |->
                    [entry |-> entries[i], score |-> TextScore(query, entries[i])]]
      filtered == ServerFilters(SortByScore(results), options)
  IN Slice(SelectSeq(filtered, LAMBDA r : NumPos(r.score)), Opt(options, "limit", DefaultLimit))

\* results: searchResults.map(r => ({ ...r.entry, relevance: Math.round(r.score * 100) }))
ServerRecords(results) ==
  [i \in 1..Len(results) |->
     [entry |-> results[i].entry, relevance |-> Round100(results[i].score)]]

(***************************************************************************)
(* State                                                                   *)
(***************************************************************************)

VARIABLES
  kbFile,            \* genai-kb.json: [status, mtime, version]
  now,               \* the clock, a day number
  kbCache,           \* search-agent.js: the cached snapshot, or null
  kbLastModified,    \* search-agent.js: the mtime it was parsed at, or null
  kbParses,          \* snapshots the agent has parsed: the identity of the newest
  agent,             \* the search() call in flight in the agent
  loads,             \* per loader, the file's mtime at its last call that returned
  serverUp,          \* the search API server: "down", "up" or "crashed"
  OPENAI_API_KEY,    \* server environment: is the key set
  ANTHROPIC_API_KEY,
  kbData,            \* server: the snapshot loaded once, or null
  embeddingsCache,   \* server: id -> embedding, or null
  cacheFile,         \* .embeddings-cache.json: [status, map]
  srv,               \* server tasks: the listen callback and the requests
  providerLog,       \* batches sent to the embedding provider, cache-file writes, and
                     \* whether a request has ended degraded after a failed attempt
  rank,              \* a direct call of an exported ranking function, with its result
  kanbanKeys,        \* kanban server: which provider keys openclaw.json holds
  kanban             \* kanban server: the POST /api/ai-search request in flight

agentVars == <<kbCache, kbLastModified, agent>>
serverVars == <<serverUp, kbData, embeddingsCache, cacheFile, srv, providerLog>>
envVars == <<kbFile, now, OPENAI_API_KEY, ANTHROPIC_API_KEY>>
kanbanVars == <<kanbanKeys, kanban>>
vars == <<kbFile, now, kbCache, kbLastModified, kbParses, agent, loads, serverUp,
          OPENAI_API_KEY, ANTHROPIC_API_KEY, kbData, embeddingsCache, cacheFile, srv,
          providerLog, rank, kanbanKeys, kanban>>

\* How often the backing file is rewritten.
MaxMtime == 2

Loaders == {"loadKB", "loadKBData"}

\* A call of a loader has returned: the file's mtime at that call.
RecordLoad(loader) == [loads EXCEPT ![loader] = kbFile.mtime]

(***************************************************************************)
(* search-agent.js                                                         *)
(***************************************************************************)

\* loadKB(): what it returns or throws, and the cache it leaves.
loadKB ==
  IF kbFile.status = "missing"
  THEN [threw |-> TRUE, kbCache |-> kbCache, kbLastModified |-> kbLastModified, parsed |-> FALSE]
  ELSE IF IsNull(kbCache) \/ Some(kbFile.mtime) # kbLastModified
  THEN IF kbFile.status = "malformed"
       THEN [threw |-> TRUE, kbCache |-> kbCache, kbLastModified |-> kbLastModified,
             parsed |-> FALSE]
       ELSE [threw |-> FALSE,
             kbCache |-> Some([entries |-> KBVersions[kbFile.version], ref |-> kbParses + 1]),
             kbLastModified |-> Some(kbFile.mtime), parsed |-> TRUE]
  ELSE [threw |-> FALSE, kbCache |-> kbCache, kbLastModified |-> kbLastModified,
        parsed |-> FALSE]

\* The envelope apiSearch's catch block and search's last lines build.
LocalEnvelope(results, flag) ==
  flag :> TRUE @@ [summary |-> Null, results |-> LocalRecords(results), total |-> Len(results)]

\* localSearch as search and apiSearch call it: loadKB, then the ranking.
\* The outcome of the call: a thrown LoadError, or the envelope.
LocalOutcome(query, options, flag) ==
  LET l == loadKB
  IN IF l.threw THEN [error |-> "LoadError"]
     ELSE [success |-> TRUE,
           data |-> LocalEnvelope(localSearch(l.kbCache.val.entries, query, options, now), flag)]

\* const { useApi = true, ...searchOptions } = options
SearchOptions(options) == [f \in DOMAIN options \ {"useApi"} |-> options[f]]

\* apiSearch's catch block: localSearch(query, { category, limit })
FallbackOptions(options) ==
  [f \in (DOMAIN options \cap {"category"}) \cup {"limit"} |->
     IF f = "limit" THEN Opt(options, "limit", DefaultLimit) ELSE options[f]]

\* The JSON body apiSearch posts (undefined properties are not serialised).
RequestBody(query, options) ==
  [f \in (DOMAIN options \cap {"category", "dateFrom", "dateTo"})
          \cup {"query", "limit", "includeSummary"} |->
     CASE f = "query" -> query
       [] f = "limit" -> Opt(options, "limit", DefaultLimit)
       [] f = "includeSummary" -> Opt(options, "includeSummary", TRUE)
       [] OTHER -> options[f]]

\* A search whose fallback answers a failed load with an empty success.
SearchSwallowsLoadError(query, options) ==
  LET viaApi == LocalOutcome(query, FallbackOptions(SearchOptions(options)), "fallback")
  IN IF Has(viaApi, "error")
     THEN [success |-> TRUE, data |-> LocalEnvelope(<<>>, "fallback")]
     ELSE viaApi

\* search() once the API path has failed (fetch rejected, or a non-ok status):
\* apiSearch's fallback, and search's own if that one throws.
SearchAfterApiFailure(query, options) ==
  LET viaApi == LocalOutcome(query, FallbackOptions(SearchOptions(options)), "fallback")
  IN IF Has(viaApi, "error")
     THEN LocalOutcome(query, SearchOptions(options), "local")
     ELSE viaApi

\* The agent's state after a call of localSearch (and so of loadKB).
AgentLoaded ==
  LET l == loadKB
  IN /\ kbCache' = l.kbCache
     /\ kbLastModified' = l.kbLastModified
     /\ kbParses' = IF l.parsed THEN kbParses + 1 ELSE kbParses
     /\ loads' = IF l.threw THEN loads ELSE RecordLoad("loadKB")

\* search(query, options) is called; without useApi it ends at once.
SearchCall(query, options) ==
  /\ agent.pc = "idle"
  /\ IF Opt(options, "useApi", TRUE)
     THEN /\ agent' = [pc |-> "fetch", query |-> query, options |-> options]
          /\ UNCHANGED <<kbCache, kbLastModified, kbParses, loads>>
     ELSE /\ agent' = [pc |-> "done", query |-> query, options |-> options,
                       outcome |-> LocalOutcome(query, SearchOptions(options), "local"),
                       scoredBy |-> "local", api |-> "skipped"]
          /\ AgentLoaded
  /\ UNCHANGED <<rank, kanbanVars, envVars, serverVars>>

\* The fetch rejects: the server is not reachable.
FetchFail ==
  /\ agent.pc = "fetch"
  /\ agent' = [pc |-> "done", query |-> agent.query, options |-> agent.options,
               outcome |-> SearchAfterApiFailure(agent.query, agent.options),
               scoredBy |-> "local", api |-> "rejected"]
  /\ AgentLoaded
  /\ UNCHANGED <<rank, kanbanVars, envVars, serverVars>>

\* search() returns (or rejects) to its caller.
SearchReturn ==
  /\ agent.pc = "done"
  /\ agent' = [pc |-> "idle"]
  /\ UNCHANGED <<rank, kanbanVars, envVars, serverVars, kbCache, kbLastModified, kbParses, loads>>

(***************************************************************************)
(* Search API server (src/unnamed/part_000)                                *)
(***************************************************************************)

\* The code's batchSize is 100; the model's snapshots hold two or three
\* entries, so the batch size is scaled to give builds of one and two batches.
BatchSize == 2

ServerTasks == {"listen", "agent"}

EmptyCache == <<>>

\* loadKBData(): parses once, then returns the same object for ever.
loadKBData ==
  IF ~ IsNull(kbData) THEN [threw |-> FALSE, kbData |-> kbData, parsed |-> FALSE]
  ELSE IF kbFile.status = "ok"
  THEN [threw |-> FALSE,
        kbData |-> Some([entries |-> KBVersions[kbFile.version]]),
        parsed |-> TRUE]
  ELSE [threw |-> TRUE, kbData |-> kbData, parsed |-> FALSE]

\* One more request for batch i sent to the embedding provider.
LogBatch(log, i) ==
  [log EXCEPT !.batches = (i :> (IF i \in DOMAIN @ THEN @[i] + 1 ELSE 1)) @@ @]

\* getEmbeddingsCache() up to its first await: the cache it resolves with, or
\* a build started by generateEmbeddings() with its first batch sent.
getEmbeddingsCache(data) ==
  IF ~ IsNull(embeddingsCache)
  THEN [resolved |-> TRUE, cache |-> embeddingsCache.val, embeddingsCache |-> embeddingsCache,
        cacheFile |-> cacheFile, log |-> providerLog]
  ELSE IF cacheFile.status = "ok"
  THEN [resolved |-> TRUE, cache |-> cacheFile.map, embeddingsCache |-> Some(cacheFile.map),
        cacheFile |-> cacheFile, log |-> providerLog]
  ELSE IF ~ OPENAI_API_KEY
  THEN [resolved |-> TRUE, cache |-> EmptyCache, embeddingsCache |-> embeddingsCache,
        cacheFile |-> cacheFile, log |-> providerLog]
  ELSE IF Len(data.entries) = 0
  THEN [resolved |-> TRUE, cache |-> EmptyCache, embeddingsCache |-> Some(EmptyCache),
        cacheFile |-> [status |-> "ok", map |-> EmptyCache],
        log |-> [providerLog EXCEPT !.writes = @ + 1]]
  ELSE [resolved |-> FALSE, cache |-> EmptyCache, embeddingsCache |-> embeddingsCache,
        cacheFile |-> cacheFile, log |-> LogBatch(providerLog, 0)]

\* The response of POST /search.
Reply(body, status, json, by, attempted) ==
  [pc |-> "done", body |-> body,
   resp |-> [ok |-> status = "200", status |-> status, json |-> json],
   scoredBy |-> by, attempted |-> attempted]

\* res.json({ summary: summary || `Found ...`, results, total })
ResultsReply(body, results, summary, by, attempted) ==
  Reply(body, "200",
        [summary |-> IF IsNull(summary) THEN Some("found") ELSE summary,
         results |-> ServerRecords(results), total |-> Len(results)],
        by, attempted)

\* POST /search once semanticSearch has returned: the empty answer, or
\* generateSummary up to its first await.
AfterSearch(body, results, by, attempted) ==
  IF Len(results) = 0
  THEN Reply(body, "200", [summary |-> Some("no-match"), results |-> <<>>, total |-> 0],
             by, attempted)
  ELSE IF ~ Opt(body, "includeSummary", TRUE)
  THEN ResultsReply(body, results, Null, by, attempted)
  ELSE IF ~ ANTHROPIC_API_KEY /\ ~ OPENAI_API_KEY
  THEN ResultsReply(body, results, Null, by, attempted)
  ELSE [pc |-> IF ANTHROPIC_API_KEY THEN "claude" ELSE "gpt", body |-> body,
        results |-> results, scoredBy |-> by, attempted |-> attempted]

\* semanticSearch once the cache is there: the text fallback, or the query
\* embedding requested.
AfterCache(body, cache, attempted) ==
  IF Cardinality(DOMAIN cache) = 0 \/ ~ OPENAI_API_KEY
  THEN AfterSearch(body, textSearch(kbData.val.entries, body.query, body), "text", attempted)
  ELSE [pc |-> "qembed", body |-> body, cache |-> cache, attempted |-> TRUE]

\* The handler of POST /search up to its first await.
HandleSearch(body) ==
  LET c == getEmbeddingsCache(kbData.val)
  IN IF body.query = <<>> \/ Trim(body.query) = <<>>
     THEN [task |-> Reply(body, "400", [error |-> "Query is required"], "none", FALSE),
           embeddingsCache |-> embeddingsCache, cacheFile |-> cacheFile, log |-> providerLog]
     ELSE [task |-> IF c.resolved THEN AfterCache(body, c.cache, FALSE)
                    ELSE [pc |-> "batch", body |-> body, i |-> 0, cache |-> c.cache,
                          attempted |-> TRUE],
           embeddingsCache |-> c.embeddingsCache, cacheFile |-> c.cacheFile, log |-> c.log]

\* The app.listen callback: the snapshot is loaded and, with a key, the
\* embeddings are pre-generated in the background.  An exception here is
\* uncaught and ends the process.
ListenCallback ==
  /\ serverUp = "down"
  /\ LET l == loadKBData
         c == getEmbeddingsCache(l.kbData.val)
     IN IF l.threw
        THEN /\ serverUp' = "crashed"
             /\ srv' = [srv EXCEPT !["listen"] = [pc |-> "done"]]
             /\ UNCHANGED <<kbData, loads, embeddingsCache, cacheFile, providerLog>>
        ELSE /\ serverUp' = "up"
             /\ kbData' = l.kbData
             /\ loads' = RecordLoad("loadKBData")
             /\ IF OPENAI_API_KEY
                THEN /\ srv' = [srv EXCEPT !["listen"] =
                                  IF c.resolved THEN [pc |-> "done"]
                                  ELSE [pc |-> "batch", i |-> 0, cache |-> c.cache]]
                     /\ embeddingsCache' = c.embeddingsCache
                     /\ cacheFile' = c.cacheFile
                     /\ providerLog' = c.log
                ELSE /\ srv' = [srv EXCEPT !["listen"] = [pc |-> "done"]]
                     /\ UNCHANGED <<embeddingsCache, cacheFile, providerLog>>
  /\ UNCHANGED <<rank, kanbanVars, envVars, agentVars, kbParses>>

\* A request arrives at POST /search and runs to its first await.
Arrive(p, body) ==
  LET h == HandleSearch(body)
  IN /\ srv' = [srv EXCEPT ![p] = h.task]
     /\ embeddingsCache' = h.embeddingsCache
     /\ cacheFile' = h.cacheFile
     /\ providerLog' = h.log
     /\ loads' = RecordLoad("loadKBData")
     /\ UNCHANGED <<serverUp, kbData, kbParses>>

\* The agent's fetch reaches the server.
FetchDeliver ==
  /\ agent.pc = "fetch"
  /\ serverUp = "up"
  /\ srv["agent"].pc = "idle"
  /\ agent' = [agent EXCEPT !.pc = "wait"]
  /\ Arrive("agent", RequestBody(agent.query, SearchOptions(agent.options)))
  /\ UNCHANGED <<rank, kanbanVars, envVars, kbCache, kbLastModified>>

\* The agent's fetch resolves: the JSON of an ok response is returned as it
\* is, any other status throws into the fallback.
FetchResolve ==
  /\ agent.pc = "wait"
  /\ srv["agent"].pc = "done"
  /\ srv' = [srv EXCEPT !["agent"] = [pc |-> "idle"]]
  /\ IF srv["agent"].resp.ok
     THEN /\ agent' = [pc |-> "done", query |-> agent.query, options |-> agent.options,
                       outcome |-> [success |-> TRUE, data |-> srv["agent"].resp.json],
                       scoredBy |-> srv["agent"].scoredBy, api |-> "200"]
          /\ UNCHANGED <<kbCache, kbLastModified, kbParses, loads>>
     ELSE /\ agent' = [pc |-> "done", query |-> agent.query, options |-> agent.options,
                       outcome |-> SearchAfterApiFailure(agent.query, agent.options),
                       scoredBy |-> "local", api |-> srv["agent"].resp.status]
          /\ AgentLoaded
  /\ UNCHANGED <<rank, kanbanVars, envVars, serverUp, kbData, embeddingsCache, cacheFile, providerLog>>

\* The entries of the batch starting at index i (0-based).
BatchOf(entries, i) ==
  SubSeq(entries, i + 1, IF i + BatchSize < Len(entries) THEN i + BatchSize ELSE Len(entries))

\* A merge that stores the first item of the response only.
MergeFirstOnly(cache, batch) ==
  [id \in DOMAIN cache \cup {batch[1].id} |->
     IF id = batch[1].id THEN EntryEmbedding(batch[1]) ELSE cache[id]]

\* cache[batch[idx].id] = item.embedding, for each item of the response.
MergeBatch(cache, batch) ==
  LET ids == {batch[k].id : k \in 1..Len(batch)}
  IN [id \in DOMAIN cache \cup ids |->
        IF id \in ids
        THEN EntryEmbedding(batch[CHOOSE k \in 1..Len(batch) : batch[k].id = id])
        ELSE cache[id]]

\* generateEmbeddings: the provider answers a batch (ok) or the batch fails
\* and is skipped; the next batch is sent, or the cache is saved and
\* getEmbeddingsCache's caller goes on.
BatchReply(p, ok) ==
  /\ srv[p].pc = "batch"
  /\ LET t == srv[p]
         entries == kbData.val.entries
         cache == IF ok THEN MergeBatch(t.cache, BatchOf(entries, t.i)) ELSE t.cache
         next == t.i + BatchSize
     IN IF next < Len(entries)
        THEN /\ srv' = [srv EXCEPT ![p] = [t EXCEPT !.i = next, !.cache = cache]]
             /\ providerLog' = LogBatch(providerLog, next)
             /\ UNCHANGED <<embeddingsCache, cacheFile>>
        ELSE /\ cacheFile' = [status |-> "ok", map |-> cache]
             /\ embeddingsCache' = Some(cache)
             /\ providerLog' = [providerLog EXCEPT
                                  !.writes = @ + 1,
                                  !.fellBack = @ \/ (p # "listen" /\ Cardinality(DOMAIN cache) = 0)]
             /\ srv' = [srv EXCEPT ![p] =
                          IF p = "listen" THEN [pc |-> "done"]
                          ELSE AfterCache(t.body, cache, TRUE)]
  /\ UNCHANGED <<rank, kanbanVars, envVars, agentVars, serverUp, kbData, kbParses, loads>>

\* getQueryEmbedding: the provider answers with a vector, or the call fails
\* and the exception reaches the handler's catch.
QueryEmbedReply(p, ok, v) ==
  /\ srv[p].pc = "qembed"
  /\ LET t == srv[p]
     IN srv' = [srv EXCEPT ![p] =
                  IF ok
                  THEN AfterSearch(t.body, VectorRank(kbData.val.entries, t.cache, v, t.body),
                                   "vector", TRUE)
                  ELSE Reply(t.body, "500", [error |-> "provider"], "none", TRUE)]
  /\ providerLog' = [providerLog EXCEPT !.fellBack = @ \/ ~ ok]
  /\ UNCHANGED <<rank, kanbanVars, envVars, agentVars, serverUp, kbData, embeddingsCache, cacheFile,
                 kbParses, loads>>

\* generateSummary: Claude answers, or fails and GPT is tried if it has a key.
ClaudeReply(p, ok) ==
  /\ srv[p].pc = "claude"
  /\ LET t == srv[p]
     IN srv' = [srv EXCEPT ![p] =
                  IF ok THEN ResultsReply(t.body, t.results, Some("claude"), t.scoredBy,
                                          t.attempted)
                  ELSE IF OPENAI_API_KEY THEN [t EXCEPT !.pc = "gpt"]
                  ELSE ResultsReply(t.body, t.results, Null, t.scoredBy, t.attempted)]
  /\ UNCHANGED <<rank, kanbanVars, envVars, agentVars, serverUp, kbData, embeddingsCache, cacheFile,
                 providerLog, kbParses, loads>>

\* generateSummary: GPT answers, or fails and the summary stays null.
GptReply(p, ok) ==
  /\ srv[p].pc = "gpt"
  /\ LET t == srv[p]
     IN srv' = [srv EXCEPT ![p] =
                  ResultsReply(t.body, t.results, IF ok THEN Some("gpt") ELSE Null,
                               t.scoredBy, t.attempted)]
  /\ UNCHANGED <<rank, kanbanVars, envVars, agentVars, serverUp, kbData, embeddingsCache, cacheFile,
                 providerLog, kbParses, loads>>

(***************************************************************************)
(* Environment                                                             *)
(***************************************************************************)

\* genai-kb.json is rewritten, removed or corrupted.
TouchKB(status, version) ==
  /\ kbFile.mtime < MaxMtime
  /\ status # "ok" => version = kbFile.version
  /\ kbFile' = [status |-> status, mtime |-> kbFile.mtime + 1, version |-> version]
  /\ UNCHANGED <<rank, kanbanVars, now, OPENAI_API_KEY, ANTHROPIC_API_KEY, agentVars,
                 serverVars, kbParses, loads>>

(***************************************************************************)
(* The system: the agent, the search API server and their environment.     *)
(***************************************************************************)

\* The searches the agent is asked for.
AgentQueries == {<<>>, kar, zzz}

AgentOptions ==
  { [useApi |-> FALSE],
    [category |-> CatResLower, dateTo |-> Today - 60],
    [limit |-> 1, includeSummary |-> FALSE] }

\* .embeddings-cache.json as an earlier run of the server may have left it.
EarlierCache == [status |-> "ok", map |-> MergeBatch(EmptyCache, KBVersions[1])]

Init ==
  /\ kbFile = [status |-> "ok", mtime |-> 1, version |-> 1]
  /\ now = Today
  /\ kbCache = Null
  /\ kbLastModified = Null
  /\ kbParses = 0
  /\ agent = [pc |-> "idle"]
  /\ loads = [l \in Loaders |-> 0]
  /\ serverUp = "down"
  /\ OPENAI_API_KEY \in BOOLEAN
  /\ ANTHROPIC_API_KEY \in BOOLEAN
  /\ kbData = Null
  /\ embeddingsCache = Null
  /\ cacheFile \in {[status |-> "absent"], EarlierCache}
  /\ srv = [p \in ServerTasks |-> [pc |-> IF p = "listen" THEN "init" ELSE "idle"]]
  /\ providerLog = [batches |-> <<>>, writes |-> 0, fellBack |-> FALSE]
  /\ rank = [fn |-> "none"]
  /\ kanbanKeys = [openrouter |-> FALSE, openai |-> FALSE]
  /\ kanban = [pc |-> "idle"]

Next ==
  \/ \E q \in AgentQueries, o \in AgentOptions : SearchCall(q, o)
  \/ FetchFail
  \/ FetchDeliver
  \/ FetchResolve
  \/ SearchReturn
  \/ ListenCallback
  \/ \E p \in ServerTasks, ok \in BOOLEAN : BatchReply(p, ok)
  \/ \E p \in ServerTasks, ok \in BOOLEAN, v \in QueryVectors : QueryEmbedReply(p, ok, v)
  \/ \E p \in ServerTasks, ok \in BOOLEAN : ClaudeReply(p, ok)
  \/ \E p \in ServerTasks, ok \in BOOLEAN : GptReply(p, ok)
  \/ \E st \in {"ok", "missing", "malformed"}, v \in 1..Len(KBVersions) : TouchKB(st, v)

Spec == Init /\ [][Next]_vars

\* Every call to the embedding provider ends: fetch resolves or rejects.
ProviderAnswers ==
  /\ WF_vars(BatchReply("listen", TRUE) \/ BatchReply("listen", FALSE))
  /\ WF_vars(BatchReply("agent", TRUE) \/ BatchReply("agent", FALSE))

\* The server with its key and no cache file yet, searched through the agent.
InitBuild == Init /\ OPENAI_API_KEY /\ ~ ANTHROPIC_API_KEY /\ cacheFile.status = "absent"

NextBuild ==
  \/ \E o \in {o \in AgentOptions : Opt(o, "useApi", TRUE)} : SearchCall(kar, o)
  \/ FetchDeliver
  \/ FetchResolve
  \/ SearchReturn
  \/ ListenCallback
  \/ \E p \in ServerTasks, ok \in BOOLEAN : BatchReply(p, ok)
  \/ \E p \in ServerTasks, ok \in BOOLEAN, v \in QueryVectors : QueryEmbedReply(p, ok, v)
  \/ \E p \in ServerTasks, ok \in BOOLEAN : GptReply(p, ok)
  \/ \E v \in 1..Len(KBVersions) : TouchKB("ok", v)

SpecBuild == InitBuild /\ [][NextBuild]_vars /\ ProviderAnswers

(***************************************************************************)
(* The ranking functions both programs export, called directly.            *)
(***************************************************************************)

\* The options a direct call is given.
RankOptions ==
  {[limit |-> l] : l \in Limits \cup {DefaultLimit}}
    \cup {[category |-> c, limit |-> l] : c \in Categories, l \in Limits \cup {DefaultLimit}}
    \cup {[dateFrom |-> d, limit |-> DefaultLimit] : d \in DateBounds}
    \cup {[category |-> CatRes, dateTo |-> d, limit |-> DefaultLimit] : d \in DateBounds}

\* The embedding caches a build leaves for a snapshot: every batch's entries,
\* or the first batch's only (a later batch failed).
CachesOf(entries) ==
  {MergeBatch(EmptyCache, entries), MergeBatch(EmptyCache, BatchOf(entries, 0))}

\* The query embeddings of the direct calls: one more, at the same angle to
\* the embeddings of entries 1 and 2.
RankVectors == QueryVectors \cup {<<1, 1>>}

\* The function a call names, applied to the call's inputs under options.
Ranked(call, options) ==
  CASE call.fn = "localSearch" -> localSearch(call.entries, call.query, options, call.clock)
    [] call.fn = "textSearch" -> textSearch(call.entries, call.query, options)
    [] call.fn = "semanticSearch" ->
         VectorRank(call.entries, call.cache, call.queryEmbedding, options)

\* A call has run: its inputs and what it returned.
Returned(call) == call @@ [out |-> Ranked(call, call.options)]

\* localSearch(query, options) on a loaded snapshot, the clock reading clock.
RankLocal(v, query, options, clock) ==
  /\ rank.fn = "none"
  /\ rank' = Returned([fn |-> "localSearch", entries |-> KBVersions[v], query |-> query,
                       options |-> options, clock |-> clock])
  /\ UNCHANGED <<kanbanVars, envVars, agentVars, serverVars, kbParses, loads>>

\* textSearch(query, options) on the server's snapshot.
RankText(v, query, options) ==
  /\ rank.fn = "none"
  /\ rank' = Returned([fn |-> "textSearch", entries |-> KBVersions[v], query |-> query,
                       options |-> options])
  /\ UNCHANGED <<kanbanVars, envVars, agentVars, serverVars, kbParses, loads>>

\* semanticSearch(query, options) with a non-empty cache and a key: the
\* provider answers queryEmbedding for the query.
RankVector(v, options, cache, queryEmbedding) ==
  /\ rank.fn = "none"
  /\ rank' = Returned([fn |-> "semanticSearch", entries |-> KBVersions[v],
                       options |-> options, cache |-> cache,
                       queryEmbedding |-> queryEmbedding])
  /\ UNCHANGED <<kanbanVars, envVars, agentVars, serverVars, kbParses, loads>>

RankReturn ==
  /\ rank.fn # "none"
  /\ rank' = [fn |-> "none"]
  /\ UNCHANGED <<kanbanVars, envVars, agentVars, serverVars, kbParses, loads>>

\* The environment of the direct calls and of the kanban server: the search
\* API server's keys and cache file play no part.
InitQuiet == Init /\ OPENAI_API_KEY /\ ANTHROPIC_API_KEY /\ cacheFile.status = "absent"

NextRank ==
  \/ \E v \in 1..Len(KBVersions), q \in Queries, o \in RankOptions,
        c \in {Today, Today + ClockSkew} : RankLocal(v, q, o, c)
  \/ \E v \in 1..Len(KBVersions), q \in Queries, o \in RankOptions : RankText(v, q, o)
  \/ \E v \in 1..Len(KBVersions), o \in RankOptions :
       \E c \in CachesOf(KBVersions[v]), e \in RankVectors : RankVector(v, o, c, e)
  \/ RankReturn

SpecRank == InitQuiet /\ [][NextRank]_vars

(***************************************************************************)
(* The agent's callers of loadKB, without a search API to reach.           *)
(***************************************************************************)

\* getStats(): the counts it returns, or loadKB's error.
StatsOutcome ==
  LET l == loadKB
  IN IF l.threw THEN [error |-> "LoadError"]
     ELSE LET entries == l.kbCache.val.entries
          IN [value |-> [totalEntries |-> Len(entries),
                         sources |-> Cardinality({entries[i].source : i \in 1..Len(entries)})]]

\* The entries getRandomEntry(category) draws from.
RandomPool(entries, options) ==
  SelectSeq(entries, LAMBDA e : CategoryMatchesIgnoreCase(e, options))

\* getRandomEntry(category), Math.random() choosing the pick-th entry: the
\* entry, null when the category holds none, or loadKB's error.
RandomOutcome(options, pick) ==
  LET l == loadKB
  IN IF l.threw THEN [error |-> "LoadError"]
     ELSE LET pool == RandomPool(l.kbCache.val.entries, options)
          IN IF Len(pool) = 0 THEN [value |-> Null] ELSE [value |-> Some(pool[pick])]

GetStats ==
  /\ rank.fn = "none"
  /\ rank' = [fn |-> "getStats", outcome |-> StatsOutcome]
  /\ AgentLoaded
  /\ UNCHANGED <<agent, kanbanVars, envVars, serverVars>>

GetRandomEntry(options, pick) ==
  /\ rank.fn = "none"
  /\ LET l == loadKB
     IN pick <= (IF l.threw THEN 1
                 ELSE IF Len(RandomPool(l.kbCache.val.entries, options)) = 0 THEN 1
                 ELSE Len(RandomPool(l.kbCache.val.entries, options)))
  /\ rank' = [fn |-> "getRandomEntry", options |-> options,
              outcome |-> RandomOutcome(options, pick)]
  /\ AgentLoaded
  /\ UNCHANGED <<agent, kanbanVars, envVars, serverVars>>

\* The longest snapshot: the picks Math.random() can make.
MaxEntries == 3

NextLoad ==
  \/ \E q \in AgentQueries, o \in AgentOptions : SearchCall(q, o)
  \/ FetchFail
  \/ SearchReturn
  \/ GetStats
  \/ \E o \in {<<>>} \cup {[category |-> c] : c \in Categories}, pick \in 1..MaxEntries :
       GetRandomEntry(o, pick)
  \/ RankReturn
  \/ \E st \in {"ok", "missing", "malformed"}, v \in 1..Len(KBVersions) : TouchKB(st, v)

SpecLoad == InitQuiet /\ [][NextLoad]_vars

(***************************************************************************)
(* The kanban API server: POST /api/ai-search.                             *)
(***************************************************************************)

\* What the route keeps of the context it sends and of the entries it returns.
ContextSize == 30
TopResults == 10

\* The request bodies sent to the route.
KanbanBodies ==
  {[query |-> q] : q \in Queries}
    \cup {[query |-> kar, category |-> c] : c \in Categories}
    \cup {[query |-> kar, dateFrom |-> d] : d \in DateBounds}
    \cup {[query |-> tok, dateTo |-> d] : d \in DateBounds}
    \cup {[category |-> CatRes]}

\* The keyword pre-filter's score of an entry.
RECURSIVE KanbanTermScore(_, _)
KanbanTermScore(queryTerms, e) ==
  IF queryTerms = <<>> THEN 0
  ELSE LET term == Head(queryTerms)
           text == ToLower(e.title \o sp
                           \o (IF Has(e, "summary") THEN e.summary ELSE <<>>)
                           \o sp \o JoinSp(e.tags))
       IN (IF Includes(text, term) THEN 1 ELSE 0)
          + (IF Includes(ToLower(e.title), term) THEN 2 ELSE 0)
          + KanbanTermScore(Tail(queryTerms), e)

\* The route from the category filter to .slice(0, 30).
KanbanScored(entries, body) ==
  LET byCategory ==
        IF Has(body, "category")
        THEN SelectSeq(entries, LAMBDA e : e.category = body.category)
        ELSE entries
      byFrom ==
        IF Has(body, "dateFrom")
        THEN SelectSeq(byCategory, LAMBDA e : Has(e, "addedAt") /\ e.addedAt >= body.dateFrom)
        ELSE byCategory
      byTo ==
        IF Has(body, "dateTo")
        THEN SelectSeq(byFrom, LAMBDA e : Has(e, "addedAt") /\ e.addedAt <= body.dateTo)
        ELSE byFrom
      queryTerms == SplitWs(ToLower(body.query))
      scored == [i \in 1..Len(byTo) |->
                   [entry |-> byTo[i], score |-> Num(KanbanTermScore(queryTerms, byTo[i]))]]
  IN Slice(SortByScore(SelectSeq(scored, LAMBDA r : NumPos(r.score))), ContextSize)

\* The provider the route calls: OpenRouter, OpenAI without an OpenRouter key.
KanbanProvider ==
  IF kanbanKeys.openrouter THEN "openrouter"
  ELSE IF kanbanKeys.openai THEN "openai"
  ELSE "none"

KanbanDone(body, status, json, ranked, llm) ==
  [pc |-> "done", body |-> body, status |-> status, json |-> json, ranked |-> ranked,
   llm |-> llm]

\* A request arrives and runs to the await of the completion call, or to its
\* response.
KanbanArrive(body) ==
  /\ kanban.pc = "idle"
  /\ kanban' =
       IF ~ Has(body, "query") \/ body.query = <<>>
       THEN KanbanDone(body, "400", [error |-> "Query required"], FALSE, "none")
       ELSE IF kbFile.status # "ok"
       THEN KanbanDone(body, "500", [error |-> "err.message"], FALSE, "none")
       ELSE IF KanbanProvider = "none"
       THEN KanbanDone(body, "500", [error |-> "No API key configured"], TRUE, "none")
       ELSE [pc |-> "llm", body |-> body, provider |-> KanbanProvider,
             scored |-> KanbanScored(KBVersions[kbFile.version], body)]
  /\ UNCHANGED <<rank, kanbanKeys, envVars, agentVars, serverVars, kbParses, loads>>

\* The completion call ends: with a completion, with a body holding none (the
\* provider's error object), or by throwing (fetch rejects, the body is no JSON).
KanbanLlmReply(answer) ==
  /\ kanban.pc = "llm"
  /\ kanban' =
       IF answer = "throws"
       THEN KanbanDone(kanban.body, "500", [error |-> "err.message"], TRUE, answer)
       ELSE KanbanDone(kanban.body, "200",
                       [summary |-> Some(IF answer = "content" THEN "content"
                                         ELSE "No summary generated."),
                        results |-> [i \in 1..Len(Slice(kanban.scored, TopResults)) |->
                                       kanban.scored[i].entry],
                        totalMatches |-> Len(kanban.scored)],
                       TRUE, answer)
  /\ UNCHANGED <<rank, kanbanKeys, envVars, agentVars, serverVars, kbParses, loads>>

KanbanReturn ==
  /\ kanban.pc = "done"
  /\ kanban' = [pc |-> "idle"]
  /\ UNCHANGED <<rank, kanbanKeys, envVars, agentVars, serverVars, kbParses, loads>>

\* openclaw.json is rewritten: the keys it holds change.
WriteConfig(keys) ==
  /\ keys # kanbanKeys
  /\ kanbanKeys' = keys
  /\ UNCHANGED <<rank, kanban, envVars, agentVars, serverVars, kbParses, loads>>

NextKanban ==
  \/ \E body \in KanbanBodies : KanbanArrive(body)
  \/ \E answer \in {"content", "empty", "throws"} : KanbanLlmReply(answer)
  \/ KanbanReturn
  \/ \E keys \in [openrouter : BOOLEAN, openai : BOOLEAN] : WriteConfig(keys)
  \/ \E st \in {"ok", "missing", "malformed"}, v \in 1..Len(KBVersions) : TouchKB(st, v)

SpecKanban == InitQuiet /\ [][NextKanban]_vars

(***************************************************************************)
(* Claims about the agent and the search API server, checked under Spec.   *)
(***************************************************************************)

PrefersRemote(options) == Opt(options, "useApi", TRUE)

\* The step in which a search that went to the API ends in apiSearch's catch.
ApiFailureStep ==
  /\ agent.pc \in {"fetch", "wait"}
  /\ agent'.pc = "done"
  /\ agent'.api # "200"

\* The agent's half of fallback correctness.  When the search API is
\* unreachable or answers a non-success status (which is how a failed or
\* refused query-embedding call reaches the agent), search returns what the
\* local strategy alone returns for the same query and options in the same
\* state: with a loadable snapshot a success whose fallback flag is true and
\* whose ordered results are localSearch's; a LoadError where the local
\* strategy itself throws one.
AgentFallbackEqualsLocal ==
  [][ApiFailureStep =>
       LET local == LocalOutcome(agent.query, SearchOptions(agent.options), "local")
       IN IF Has(local, "error")
          THEN Has(agent'.outcome, "error")
          ELSE /\ Has(agent'.outcome, "success") /\ agent'.outcome.success
               /\ Has(agent'.outcome.data, "fallback") /\ agent'.outcome.data.fallback
               /\ agent'.outcome.data.results = local.data.results
               /\ agent'.outcome.data.total = Len(local.data.results)]_vars

\* The step in which a search that went to the API ends with the remote
\* strategy unavailable: the API unreachable or answering a non-success
\* status, or the server, its key configured, left without embeddings by the
\* provider and scoring by text.
RemoteUnavailableStep ==
  /\ agent.pc \in {"fetch", "wait"}
  /\ agent'.pc = "done"
  /\ \/ agent'.api # "200"
     \/ agent'.scoredBy = "text" /\ OPENAI_API_KEY

\* C1: fallback correctness.  Whenever the embedding provider is unavailable
\* to a search that prefers the remote strategy and the local strategy has a
\* snapshot to rank, the search returns a success whose degraded flag is true
\* and whose ordered results are those of the local strategy alone for the
\* same query and options.
C1_FallbackEqualsLocal ==
  [][RemoteUnavailableStep =>
       LET local == LocalOutcome(agent.query, SearchOptions(agent.options), "local")
       IN Has(local, "success")
            => /\ Has(agent'.outcome, "success") /\ agent'.outcome.success
               /\ Has(agent'.outcome.data, "fallback") /\ agent'.outcome.data.fallback
               /\ agent'.outcome.data.results = local.data.results]_vars

\* C2: every successful result of a search that preferred the remote strategy
\* and was scored lexically (the server's text search or the agent's local
\* search) carries the degraded flag.
C2_DegradedFlagged ==
  (/\ agent.pc = "done"
   /\ PrefersRemote(agent.options)
   /\ Has(agent.outcome, "success")
   /\ agent.scoredBy \in {"text", "local"})
    => Has(agent.outcome.data, "fallback") /\ agent.outcome.data.fallback

\* C3: once a request has ended degraded because its remote attempt failed,
\* every later valid request handled with a provider key configured attempts
\* the vector strategy again (sends a batch or a query to the provider).
C3_ReattemptsRemote ==
  \A p \in ServerTasks \ {"listen"} :
    (/\ srv[p].pc = "done"
     /\ providerLog.fellBack
     /\ OPENAI_API_KEY
     /\ srv[p].resp.status # "400")
      => srv[p].attempted

\* C4: at most one embedding-cache build is in flight, no batch is sent to the
\* provider twice and the cache file is written by one build only.
C4_SingleBuilder ==
  /\ Cardinality({p \in ServerTasks : srv[p].pc = "batch"}) <= 1
  /\ \A i \in DOMAIN providerLog.batches : providerLog.batches[i] <= 1
  /\ providerLog.writes <= 1

\* The snapshot a loader last returned.
Snapshot(loader) == IF loader = "loadKB" THEN kbCache ELSE kbData

\* C5: snapshot reload, for a loader.  Between two calls at the same
\* modification time the snapshot stays the identical object; a call at a
\* changed modification time of a readable source returns its new content.
ReloadsOnChange(loader) ==
  loads[loader] > 0 =>
    /\ loads'[loader] = loads[loader] => Snapshot(loader)' = Snapshot(loader)
    /\ (loads'[loader] # loads[loader] /\ kbFile.status = "ok")
         => Snapshot(loader)'.val.entries = KBVersions[kbFile.version]

C5_SnapshotReload == [][\A loader \in Loaders : ReloadsOnChange(loader)]_vars

\* Snapshot reload holds of the agent's loadKB alone.
AgentSnapshotReload == [][ReloadsOnChange("loadKB")]_vars

\* C6: a search with an empty query ends in a ValidationError, without an API
\* call and without a result envelope.
C6_EmptyQueryRejected ==
  (agent.pc = "done" /\ agent.query = <<>>)
    => /\ Has(agent.outcome, "error") /\ agent.outcome.error = "ValidationError"
       /\ agent.api = "skipped"

\* Every returned record's date is inside the request's bounds, or absent.
DatesInside(records, options) ==
  \A i \in 1..Len(records) :
    Has(records[i].entry, "date") =>
      /\ Has(options, "dateFrom") => options.dateFrom <= records[i].entry.date
      /\ Has(options, "dateTo") => records[i].entry.date <= options.dateTo

\* C9: whichever strategy produced them, the results of a search carrying
\* dateFrom or dateTo hold only entries without a date or dated inside the
\* bounds.
C9_DateBoundsRespected ==
  (agent.pc = "done" /\ Has(agent.outcome, "success"))
    => DatesInside(agent.outcome.data.results, agent.options)

(***************************************************************************)
(* Claims about the ranking functions, checked under SpecRank.             *)
(***************************************************************************)

Ids(results) == {results[i].entry.id : i \in 1..Len(results)}

WithoutCategory(options) == [f \in DOMAIN options \ {"category"} |-> options[f]]

\* C7 as stated: under every strategy, the ids a category-filtered ranking
\* returns are among the ids the unfiltered ranking returns under the same
\* limit.
C7_FilterNarrowsSameLimit ==
  rank.fn # "none" =>
    Ids(rank.out) \subseteq Ids(Ranked(rank, WithoutCategory(rank.options)))

\* C7, amended: under every strategy, the ids a category-filtered ranking
\* returns are among the ids the unfiltered ranking returns when its limit
\* does not truncate it (a limit of at least the number of entries), and
\* among those it returns under the same limit whenever that result has fewer
\* than limit entries.
C7_FilterNarrows ==
  rank.fn # "none" =>
    LET open == WithoutCategory(rank.options)
        same == Ranked(rank, open)
        whole == Ranked(rank, [open EXCEPT !.limit = Len(rank.entries)])
    IN /\ Ids(rank.out) \subseteq Ids(whole)
       /\ Len(same) < rank.options.limit => Ids(rank.out) \subseteq Ids(same)

\* C7 witness: a lexical ranking under a category filter and a limit of 1
\* returns an entry that the unfiltered ranking under that limit leaves out
\* and the untruncated one holds.
C7_Witness ==
  /\ rank.fn = "localSearch"
  /\ Has(rank.options, "category")
  /\ rank.options.limit = 1
  /\ Len(rank.out) = 1
  /\ ~ (Ids(rank.out) \subseteq Ids(Ranked(rank, WithoutCategory(rank.options))))

\* No query token of length > 2 occurs in the entry's searchable text, and the
\* full query is a substring of none of title, summary and source.
NoLexicalMatch(query, entry) ==
  /\ MatchedWords(query, entry) = <<>>
  /\ ~ Includes(ToLower(entry.title), ToLower(query))
  /\ ~ (Has(entry, "summary") /\ Includes(ToLower(entry.summary), ToLower(query)))
  /\ ~ Includes(ToLower(entry.source), ToLower(query))

\* C8 as stated: the lexical score is never negative, and an entry without a
\* lexical match scores 0 and is not returned.
C8_ZeroWithoutMatch ==
  rank.fn = "localSearch" =>
    \A i \in 1..Len(rank.entries) :
      LET e == rank.entries[i]
      IN /\ LocalScore(rank.query, e, rank.clock) >= 0
         /\ NoLexicalMatch(rank.query, e)
              => /\ LocalScore(rank.query, e, rank.clock) = 0
                 /\ e.id \notin Ids(rank.out)

\* C8, amended: the lexical score is never negative, and it is exactly 0, the
\* entry not being returned, whenever the query has a token of length > 2, no
\* such token occurs in the entry's searchable text, the full query is a
\* substring of none of title, summary and source, and the entry has no date
\* or one at least 90 days old.
C8_ZeroWithoutMatchOrBoost ==
  rank.fn = "localSearch" =>
    \A i \in 1..Len(rank.entries) :
      LET e == rank.entries[i]
      IN /\ LocalScore(rank.query, e, rank.clock) >= 0
         /\ (/\ NoLexicalMatch(rank.query, e)
             /\ QueryWords(rank.query) # <<>>
             /\ Has(e, "date") => rank.clock - e.date >= OlderDays)
              => /\ LocalScore(rank.query, e, rank.clock) = 0
                 /\ e.id \notin Ids(rank.out)

\* C8 witness: a query with a long token ranks a snapshot holding an entry at
\* least 90 days old that it does not match; that entry is left out while
\* another is returned.
C8_Witness ==
  /\ rank.fn = "localSearch"
  /\ QueryWords(rank.query) # <<>>
  /\ Len(rank.out) > 0
  /\ \E i \in 1..Len(rank.entries) :
       /\ NoLexicalMatch(rank.query, rank.entries[i])
       /\ Has(rank.entries[i], "date")
       /\ rank.clock - rank.entries[i].date >= OlderDays
       /\ rank.entries[i].id \notin Ids(rank.out)

(***************************************************************************)
(* Claims about the kanban API server, checked under SpecKanban.           *)
(***************************************************************************)

\* C10: narration is best-effort.  Every request whose entries were ranked is
\* answered successfully with the ranked results, and its narration is null
\* unless a provider produced one; no missing key and no failed completion
\* call turns the response into an error.
C10_NarrationNeverFatal ==
  (kanban.pc = "done" /\ kanban.ranked)
    => /\ kanban.status = "200"
       /\ Has(kanban.json, "results")
       /\ kanban.llm # "content" => IsNull(kanban.json.summary)

(***************************************************************************)
(* Claims about loadKB's callers, checked under SpecLoad.                  *)
(***************************************************************************)

\* A call of search that reached loadKB ends in this step.
SearchEnds == agent.pc # "done" /\ agent'.pc = "done" /\ agent'.api # "200"

\* A call of getStats or getRandomEntry is made in this step.
UtilityEnds == rank.fn = "none" /\ rank'.fn \in {"getStats", "getRandomEntry"}

C12_RelevanceIsPercentage ==
  (agent.pc = "done" /\ Has(agent.outcome, "success"))
    => \A i \in 1..Len(agent.outcome.data.results) :
         agent.outcome.data.results[i].relevance \in 0..100

(***************************************************************************)
(* Further claims about the ranking functions, checked under SpecRank.     *)
(***************************************************************************)

\* Where an entry stands in the snapshot a call ranked.
SnapshotIndex(entries, id) == CHOOSE i \in 1..Len(entries) : entries[i].id = id

\* C13: under every strategy, after filtering and truncation, the results are
\* in non-increasing order of score, and two returned entries of identical
\* score stand in the order they have in the source snapshot.
C13_StableDescending ==
  rank.fn # "none" =>
    \A i, j \in 1..Len(rank.out) :
      i < j =>
        /\ ~ NumGt(rank.out[j].score, rank.out[i].score)
        /\ NumEq(rank.out[i].score, rank.out[j].score)
             => SnapshotIndex(rank.entries, rank.out[i].entry.id)
                  < SnapshotIndex(rank.entries, rank.out[j].entry.id)

\* C13 witness: a vector ranking returns two entries of identical non-zero
\* similarity, in snapshot order, before one of lower similarity.
C13_Witness ==
  /\ rank.fn = "semanticSearch"
  /\ Len(rank.out) = 3
  /\ NumEq(rank.out[1].score, rank.out[2].score)
  /\ NumGt(rank.out[2].score, rank.out[3].score)
  /\ NumPos(rank.out[3].score)
  /\ rank.out[1].entry.id = 1 /\ rank.out[2].entry.id = 2

(***************************************************************************)
(* Claims about the embedding-cache build, checked under SpecBuild.        *)
(***************************************************************************)

\* The provider's answer to the batch task p is waiting for arrives.
BatchStep(p) == srv[p].pc = "batch" /\ srv'[p] # srv[p]

\* What that step does to the build of p: the batch's entries, none of which
\* has an embedding yet, all get theirs keyed by id or all stay without one;
\* then the next batch is sent, or after the last one the map is persisted.
BuildStepOK(p) ==
  BatchStep(p) =>
    LET t == srv[p]
        entries == kbData.val.entries
        last == t.i + BatchSize >= Len(entries)
        batch == {k \in 1..Len(entries) : t.i < k /\ k <= t.i + BatchSize}
        ids == {entries[k].id : k \in batch}
        after == IF last THEN embeddingsCache'.val ELSE srv'[p].cache
    IN /\ batch # {}
       /\ ids \cap DOMAIN t.cache = {}
       /\ \/ after = t.cache
          \/ /\ DOMAIN after = DOMAIN t.cache \cup ids
             /\ \A k \in batch : after[entries[k].id] = EntryEmbedding(entries[k])
             /\ \A id \in DOMAIN t.cache : after[id] = t.cache[id]
       /\ IF last
          THEN /\ srv'[p].pc # "batch"
               /\ embeddingsCache' = Some(after)
               /\ cacheFile' = [status |-> "ok", map |-> after]
          ELSE /\ srv'[p].pc = "batch"
               /\ srv'[p].i = t.i + BatchSize

\* The records a vector search of request p ends with, score or relevance.
VectorZeros(t, cache) ==
  IF t.pc = "done"
  THEN \A i \in 1..Len(t.resp.json.results) :
         t.resp.json.results[i].entry.id \notin DOMAIN cache
           => t.resp.json.results[i].relevance = 0
  ELSE \A i \in 1..Len(t.results) :
         t.results[i].entry.id \notin DOMAIN cache => NumEq(t.results[i].score, Num(0))

\* The query embedding arrives and the vector strategy scores: no error, and
\* an entry without an embedding is scored 0.
VectorStepOK(p) ==
  (srv[p].pc = "qembed" /\ srv'[p].pc # "qembed" /\ srv'[p].scoredBy = "vector")
    => /\ srv'[p].pc = "done" => srv'[p].resp.status = "200"
       /\ VectorZeros(srv'[p], srv[p].cache)

\* C14: a build always terminates, whatever batches fail; each batch is sent
\* once, in turn; the entries of a successful batch end with an embedding
\* keyed by their id and those of a failed batch without one; the resulting
\* map is persisted; and the vector strategy scores an entry without an
\* embedding 0 rather than failing.
C14_BuildCompletes ==
  /\ [][\A p \in ServerTasks : BuildStepOK(p) /\ VectorStepOK(p)]_vars
  /\ \A p \in ServerTasks : (srv[p].pc = "batch") ~> (srv[p].pc # "batch")

\* C14 witness: a build whose first batch succeeded and whose second failed
\* was persisted, and a vector search returned the entry left without an
\* embedding with relevance 0.
C14_Witness ==
  /\ srv["agent"].pc = "done"
  /\ srv["agent"].scoredBy = "vector"
  /\ cacheFile = [status |-> "ok", map |-> embeddingsCache.val]
  /\ DOMAIN embeddingsCache.val = {1, 2}
  /\ \E i \in 1..Len(srv["agent"].resp.json.results) :
       /\ srv["agent"].resp.json.results[i].entry.id = 3
       /\ srv["agent"].resp.json.results[i].relevance = 0

(***************************************************************************)
(* Claims about the category filter, checked under SpecRank.               *)
(***************************************************************************)

IdsInOrder(results) == [i \in 1..Len(results) |-> results[i].entry.id]

\* The untruncated ranking without a category filter, cut down to the entries
\* whose category equals the asked one ignoring case, then to the limit.
FilteredIgnoringCase(call) ==
  LET open == [WithoutCategory(call.options) EXCEPT !.limit = Len(call.entries)]
      whole == Ranked(call, open)
      kept == IF Has(call.options, "category") /\ call.options.category # CatAll
              THEN SelectSeq(whole, LAMBDA r : ToLower(r.entry.category)
                                                 = ToLower(call.options.category))
              ELSE whole
  IN Slice(kept, call.options.limit)

\* The category filter of the agent's lexical search is the case-insensitive
\* match, skipped for an absent category and for "all".
LocalCategoryIgnoresCase ==
  rank.fn = "localSearch" => IdsInOrder(rank.out) = IdsInOrder(FilteredIgnoringCase(rank))

\* C15: under every strategy the category filter is an exact case-insensitive
\* match, skipped when the category is absent or "all": the returned entries
\* are exactly the ranked entries whose category equals the asked one
\* ignoring case.
C15_CategoryIgnoresCase ==
  rank.fn # "none" => IdsInOrder(rank.out) = IdsInOrder(FilteredIgnoringCase(rank))
====
